---------------------------- MODULE Spec2Model ----------------------------
(***************************************************************************)
(* The weekly low-lecture compliance engine of the volunteer-tutoring      *)
(* backend: checkLowLectureMembers, the GET /low-lecture-members handler,  *)
(* the weekly cron trigger and the lecture-submission routes, over the     *)
(* document store they share.                                              *)
(*                                                                         *)
(* Time is counted in ticks.  A local calendar day has TicksPerDay         *)
(* instants; the first one stands for 00:00:00.000 and the last one for    *)
(* 23:59:59.999.  Day 0 is a Friday.                                       *)
(***************************************************************************)
EXTENDS Integers, Sequences, FiniteSets, Bags, TLC

\* ------------------------------------------------------------------ bounds
TicksPerDay == 2
\* the clock stops after this many days
MaxDay == 8
\* lectures that may be submitted, and lecture records an account may start with
MaxLectures == 2
\* reports the store may hold: the scheduled runs that may commit
MaxReports == 2
\* students a roster may hold
MaxStudents == 3

\* ------------------------------------------------------------- the universe
Volunteers == {"v1", "v2"}
\* the order in which User.find returns the accounts
UserOrder == <<"v1", "v2">>
Subjects == {"Math", "Sci"}
\* lastLowLectureWeek is NULL or Date(ws), a date
NULL == <<>>
Date(t) == <<t>>
valueOf(d) == d[1]
\* a lecture or notification that carries no student email
NoEmail == "none"

VARIABLES
  now,                  \* the wall clock, in ticks
  role,                 \* User.role
  jrStatus,             \* JoinRequest.status of the account's email ("none": no record)
  jrSubjects,           \* JoinRequest.subjects, the flat legacy list
  students,             \* User.students
  lectures,             \* User.lectures
  lectureCount,         \* User.lectureCount
  volunteerHours,       \* JoinRequest.volunteerHours
  lowLectureWeekCount,  \* User.lowLectureWeekCount
  lastLowLectureWeek,   \* User.lastLowLectureWeek
  notifications,        \* the Notification collection, a bag
  reports,              \* the LowLectureReport collection, in insertion order
  cronPc,               \* "idle" or "running": the scheduled run's position
  cronIdx,              \* index in users of the next account the run processes
  cronOutcome,          \* what the scheduled run that just ended handed its caller
  snap,                 \* what the run's transaction reads: the store at its start
  tx,                   \* what the run's transaction has staged
  run2,                 \* a scheduled run started while the first is in progress
  response,             \* the answer the HTTP handler that just ran has sent
  hasAccount,           \* the volunteers that have a User record
  rejecting             \* the join requests a reject handler has read as Pending

profile == <<role, jrStatus, jrSubjects, students>>
counters == <<lowLectureWeekCount, lastLowLectureWeek>>
lectureState == <<lectures, lectureCount, volunteerHours>>
store == <<profile, counters, lectureState, notifications, reports>>
cronState == <<cronPc, cronIdx, snap, tx, run2>>
\* what the last step handed to its caller
outputs == <<cronOutcome, response>>
\* the accounts that exist and the reject handlers between their read and their save
joinState == <<hasAccount, rejecting>>
vars == <<now, store, cronState, outputs, joinState>>

\* ------------------------------------------------------------------- time
DayOf(t) == t \div TicksPerDay

\* Date.prototype.getDay: 0 = Sunday ... 6 = Saturday (day 0 is a Friday)
getDay(t) == (DayOf(t) + 5) % 7

\* Date.prototype.setDate(getDate() + n): n calendar days later, same time of day
setDate(t, n) == t + n * TicksPerDay

\* Date.prototype.setHours(0, 0, 0, 0)
setHoursStart(t) == DayOf(t) * TicksPerDay

\* Date.prototype.setHours(23, 59, 59, 999)
setHoursEnd(t) == DayOf(t) * TicksPerDay + (TicksPerDay - 1)

daysToPreviousSaturday(t) ==
  LET d == (getDay(t) + 1) % 7
  IN  IF d = 0 THEN 7 ELSE d

previousSaturday(t) == setDate(t, 0 - daysToPreviousSaturday(t))

\* weekStart a day late: a window of six days
weekStart_SixDays(t) == setHoursStart(setDate(previousSaturday(t), 0 - 6))

weekStart(t) == setHoursStart(setDate(previousSaturday(t), 0 - 7))

\* weekEnd without the step back to Friday
weekEnd_OnSaturday(t) == setHoursEnd(previousSaturday(t))

weekEnd(t) == setHoursEnd(setDate(previousSaturday(t), 0 - 1))

\* ----------------------------------------------------------------- strings
\* String.prototype.toLowerCase().trim() on the e-mail addresses of the model
toLowerTrim(e) == IF e = "S@x.com" THEN "s@x.com" ELSE e

\* ------------------------------------------------------------ notifications
LowType == "low_lecture_count_per_subject"

Note(uid, type, subject, studentEmail, minLectures, currentLectures) ==
  [userId |-> uid, type |-> type, subject |-> subject, studentEmail |-> studentEmail,
   minLectures |-> minLectures, currentLectures |-> currentLectures]

\* the documents of a bag that a filter matches
Matching(bag, uid, type, subject, studentEmail) ==
  {n \in BagToSet(bag) : /\ n.userId = uid
                         /\ n.type = type
                         /\ n.subject = subject
                         /\ n.studentEmail = studentEmail}

\* Notification.deleteMany(filter): the bag without the documents in gone
DeleteAll(bag, gone) ==
  LET keep == BagToSet(bag) \ gone
  IN  [n \in keep |-> bag[n]]

\* --------------------------------------------------------------- evaluator
\* the filter that leaves out a lecture made at weekEnd itself
lectureMatches_ExclusiveEnd(lecture, ws, we, student, subject) ==
  LET matchesTimeFrame == lecture.createdAt >= ws /\ lecture.createdAt < we
      matchesStudent == /\ lecture.studentEmail # NoEmail
                        /\ toLowerTrim(lecture.studentEmail) = toLowerTrim(student.email)
      matchesSubject == lecture.subject = subject.name
  IN  matchesTimeFrame /\ matchesStudent /\ matchesSubject

\* the filter of user.lectures.filter(...).length
lectureMatches(lecture, ws, we, student, subject) ==
  LET matchesTimeFrame == lecture.createdAt >= ws /\ lecture.createdAt <= we
      matchesStudent == /\ lecture.studentEmail # NoEmail
                        /\ toLowerTrim(lecture.studentEmail) = toLowerTrim(student.email)
      matchesSubject == lecture.subject = subject.name
  IN  matchesTimeFrame /\ matchesStudent /\ matchesSubject

countLectures(lecs, ws, we, student, subject) ==
  Len(SelectSeq(lecs, LAMBDA lecture : lectureMatches(lecture, ws, we, student, subject)))

\* the comparison with the minimum itself counted as under target
isUnderTarget_Inclusive(delivered, minLectures) == delivered <= minLectures

isUnderTarget(delivered, minLectures) == delivered < minLectures

\* the lookup that finds nothing
notificationExists_Never(seen, staged, uid, subject, student) == FALSE

\* the lookup made outside the session: it misses what the run has staged
notificationExists_OutsideSession(seen, staged, uid, subject, student) ==
  Matching(seen, uid, LowType, subject.name, toLowerTrim(student.email)) # {}

\* Notification.findOne(...) inside the session: the snapshot and what the run staged
notificationExists(seen, staged, uid, subject, student) ==
  Matching(seen (+) staged, uid, LowType, subject.name, toLowerTrim(student.email)) # {}

\* the loop over student.subjects; acc = [under |-> ..., staged |-> ...]
RECURSIVE subjectLoop(_, _, _, _, _, _, _, _, _)
subjectLoop(uid, student, k, lecs, ws, we, isCronJob, seen, acc) ==
  IF k > Len(student.subjects) THEN acc
  ELSE
    LET subject == student.subjects[k]
        delivered == countLectures(lecs, ws, we, student, subject)
        entry == [name |-> subject.name, minLectures |-> subject.minLectures,
                  deliveredLectures |-> delivered]
        create == /\ isCronJob
                  /\ ~notificationExists(seen, acc.staged, uid, subject, student)
        note == Note(uid, LowType, subject.name, toLowerTrim(student.email),
                     subject.minLectures, delivered)
        next == IF isUnderTarget(delivered, subject.minLectures)
                THEN [under |-> Append(acc.under, entry),
                      staged |-> IF create THEN acc.staged (+) SetToBag({note})
                                 ELSE acc.staged]
                ELSE acc
    IN  subjectLoop(uid, student, k + 1, lecs, ws, we, isCronJob, seen, next)

\* the test that takes an empty list for a finding
hasUnderTarget_Always(under) == TRUE

\* studentUnderTargetSubjects.length > 0, userUnderTargetStudents.length > 0
hasUnderTarget(under) == Len(under) > 0

\* the loop over user.students; acc = [under |-> ..., staged |-> ...]
RECURSIVE studentLoop(_, _, _, _, _, _, _, _, _)
studentLoop(uid, roster, i, lecs, ws, we, isCronJob, seen, acc) ==
  IF i > Len(roster) THEN acc
  ELSE
    LET student == roster[i]
        r == subjectLoop(uid, student, 1, lecs, ws, we, isCronJob, seen,
                         [under |-> <<>>, staged |-> acc.staged])
        next == IF Len(student.subjects) = 0 THEN acc
                ELSE IF hasUnderTarget(r.under)
                THEN [under |-> Append(acc.under,
                                  [studentEmail |-> toLowerTrim(student.email),
                                   underTargetSubjects |-> r.under]),
                      staged |-> r.staged]
                ELSE [under |-> acc.under, staged |-> r.staged]
    IN  studentLoop(uid, roster, i + 1, lecs, ws, we, isCronJob, seen, next)

\* the guard without the comparison of weeks
shouldIncrement_EveryRun(isCronJob, last, ws) == isCronJob

\* the guard that lets only a first flag count
shouldIncrement_FirstOnly(isCronJob, last, ws) == isCronJob /\ last = NULL

\* the guard that takes the week already counted for a new one
shouldIncrement_SameWeekToo(isCronJob, last, ws) ==
  isCronJob /\ (last = NULL \/ valueOf(last) <= ws)

\* the guard without the test of the caller
shouldIncrement_AnyCaller(isCronJob, last, ws) == last = NULL \/ valueOf(last) < ws

\* the counter guard of a flagged account
shouldIncrement(isCronJob, last, ws) ==
  isCronJob /\ (last = NULL \/ valueOf(last) < ws)

\* the guard that never resets
shouldReset_Never(isCronJob, count) == FALSE

\* the reset that leaves a counter of 1 standing
shouldReset_AboveOne(isCronJob, count) == isCronJob /\ count > 1

\* the counter guard of a compliant account or of one without students
shouldReset(isCronJob, count) == isCronJob /\ count > 0

\* the skip that looks only for a missing join request
isSkipped_OnlyMissing(u) == u.jrStatus = "none"

\* !joinRequest || joinRequest.status !== 'Approved'
isSkipped(u) == u.jrStatus # "Approved"

\* One iteration of the loop over users.  u is the account as the transaction
\* sees it; t = [members, count, last, staged, written] is what the run holds.
processUser(uid, u, ws, we, isCronJob, seen, t) ==
  IF isSkipped(u) THEN t
  ELSE IF Len(u.students) = 0
  THEN IF shouldReset(isCronJob, t.count[uid])
       THEN [t EXCEPT !.count[uid] = 0, !.last[uid] = NULL,
                      !.written = @ \cup {uid}]
       ELSE t
  ELSE
    LET r == studentLoop(uid, u.students, 1, u.lectures, ws, we, isCronJob, seen,
                         [under |-> <<>>, staged |-> t.staged])
        inc == shouldIncrement(isCronJob, t.last[uid], ws)
        newCount == IF inc THEN t.count[uid] + 1 ELSE t.count[uid]
        member == [id |-> uid, lowLectureWeekCount |-> newCount,
                   underTargetStudents |-> r.under, lectures |-> u.lectures]
    IN  IF hasUnderTarget(r.under)
        THEN [t EXCEPT !.members = Append(@, member),
                       !.count[uid] = newCount,
                       !.last[uid] = IF inc THEN Date(ws) ELSE @,
                       !.staged = r.staged,
                       !.written = IF inc THEN @ \cup {uid} ELSE @]
        ELSE IF shouldReset(isCronJob, t.count[uid])
        THEN [t EXCEPT !.count[uid] = 0, !.last[uid] = NULL, !.staged = r.staged,
                       !.written = @ \cup {uid}]
        ELSE [t EXCEPT !.staged = r.staged]

\* the loop over users run in one piece: an on-demand evaluation is one
\* transaction, and reads one snapshot
RECURSIVE userLoop(_, _, _, _, _, _, _, _)
userLoop(us, i, accounts, ws, we, isCronJob, seen, t) ==
  IF i > Len(us) THEN t
  ELSE userLoop(us, i + 1, accounts, ws, we, isCronJob, seen,
                processUser(us[i], accounts[us[i]], ws, we, isCronJob, seen, t))

\* User.find({ role: 'user' })
findUsers == SelectSeq(UserOrder, LAMBDA v : role[v] = "user")

\* what a transaction that starts now reads: the store as it is
Snapshot ==
  [lectures |-> lectures, students |-> students, notifications |-> notifications]

\* the accounts as a transaction that reads the snapshot sn sees them
Accounts(sn) ==
  [v \in Volunteers |-> [jrStatus |-> jrStatus[v], students |-> sn.students[v],
                         lectures |-> sn.lectures[v]]]

\* what a transaction holds before its first write
NewTx(ws, we) ==
  [members |-> <<>>, count |-> lowLectureWeekCount, last |-> lastLowLectureWeek,
   staged |-> EmptyBag, written |-> {}, weekStart |-> ws, weekEnd |-> we,
   users |-> findUsers]

NoTx == [members |-> <<>>, count |-> [v \in Volunteers |-> 0],
         last |-> [v \in Volunteers |-> NULL], staged |-> EmptyBag, written |-> {},
         weekStart |-> 0, weekEnd |-> 0, users |-> <<>>]

NoSnap == [lectures |-> [v \in Volunteers |-> <<>>],
           students |-> [v \in Volunteers |-> <<>>], notifications |-> EmptyBag]

\* a scheduled run that is not in progress
NoRun == [pc |-> "idle", idx |-> 0, snap |-> NoSnap, tx |-> NoTx]

NoResponse == [kind |-> "none"]

\* what a scheduled run hands the cron callback: its result, and the writes its
\* transaction held at that point
Outcome(result, t) ==
  [result |-> result, written |-> t.written, created |-> BagCardinality(t.staged)]

NoOutcome == Outcome("none", NoTx)

\* ------------------------------------------------------------------- Init
RosterA == << [email |-> "S@x.com",
               subjects |-> << [name |-> "Math", minLectures |-> 2] >>] >>

\* add-student compares e-mails as they are written, so a roster may hold the same
\* student twice in different case
RosterB == << [email |-> "t@x.com", subjects |-> <<>>],
              [email |-> "s@x.com",
               subjects |-> << [name |-> "Math", minLectures |-> 1],
                               [name |-> "Sci", minLectures |-> 1] >>],
              [email |-> "S@x.com",
               subjects |-> << [name |-> "Math", minLectures |-> 2] >>] >>

\* a roster whose only student has no subject assignment
RosterC == << [email |-> "t@x.com", subjects |-> <<>>] >>

Profile(r, st, subs, ros) ==
  [role |-> r, jrStatus |-> st, jrSubjects |-> subs, students |-> ros]

\* the accounts the model starts from: an approved volunteer, and a second account
\* that is one of the kinds the evaluator tells apart (approved with students,
\* approved without students, join request not approved, no join request, not a
\* volunteer)
Profiles1 == { Profile("user", "Approved", <<"Math">>, RosterA) }

Profiles2 == { Profile("user", "Approved", <<"Math", "Sci">>, RosterB),
               Profile("user", "Approved", <<>>, <<>>),
               Profile("user", "Approved", <<>>, RosterC),
               Profile("user", "Pending", <<"Math">>, RosterA),
               Profile("user", "none", <<"Math">>, RosterA),
               Profile("admin", "Approved", <<"Math">>, RosterA) }

InitStore ==
  /\ \E p1 \in Profiles1, p2 \in Profiles2 :
       LET p == [v \in Volunteers |-> IF v = "v1" THEN p1 ELSE p2]
       IN  /\ role = [v \in Volunteers |-> p[v].role]
           /\ jrStatus = [v \in Volunteers |-> p[v].jrStatus]
           /\ jrSubjects = [v \in Volunteers |-> p[v].jrSubjects]
           /\ students = [v \in Volunteers |-> p[v].students]
  /\ lectures = [v \in Volunteers |-> <<>>]
  /\ lectureCount = [v \in Volunteers |-> 0]
  /\ volunteerHours = [v \in Volunteers |-> 0]
  /\ lowLectureWeekCount = [v \in Volunteers |-> 0]
  /\ lastLowLectureWeek = [v \in Volunteers |-> NULL]
  /\ notifications = EmptyBag
  /\ reports = <<>>
  /\ cronPc = "idle"
  /\ cronIdx = 0
  /\ cronOutcome = NoOutcome
  /\ snap = NoSnap
  /\ tx = NoTx
  /\ run2 = NoRun
  /\ response = NoResponse
  /\ hasAccount = Volunteers
  /\ rejecting = {}

\* the model starts at the last instant of day 0
Init ==
  /\ now = setHoursEnd(0)
  /\ InitStore

\* ------------------------------------------------------------------ clock
LastInstant == MaxDay * TicksPerDay + (TicksPerDay - 1)

\* the instants at which the model looks at the system: the two instants around
\* each boundary between weeks, the last of Friday and the first of Saturday.  The
\* code reads the clock through getDay() and through comparisons with the ends of
\* a window, and from Sunday to Friday it computes the window it computes on that
\* Friday, so the other instants of a week are like its Friday's.
ClockStops ==
  {t \in 0 .. LastInstant :
     \/ getDay(t) = 5 /\ t = setHoursEnd(t)
     \/ getDay(t) = 6 /\ t = setHoursStart(t)}

\* Time passes.  A scheduled run ends within the tick it started in.
Tick ==
  /\ cronPc = "idle"
  /\ run2.pc = "idle"
  /\ \E t \in ClockStops :
       /\ t > now
       /\ \A u \in ClockStops : u > now => t <= u
       /\ now' = t
  /\ cronOutcome' = NoOutcome
  /\ response' = NoResponse
  /\ UNCHANGED <<store, cronState, joinState>>

\* ------------------------------------------------- committing an evaluation
\* the save that writes the counter and not the week
saveUsers_CountOnly(t) ==
  /\ lowLectureWeekCount' =
       [v \in Volunteers |-> IF v \in t.written THEN t.count[v]
                             ELSE lowLectureWeekCount[v]]
  /\ lastLowLectureWeek' = lastLowLectureWeek

\* user.save({ session }) of the accounts the evaluation wrote, once committed
saveUsers(t) ==
  /\ lowLectureWeekCount' =
       [v \in Volunteers |-> IF v \in t.written THEN t.count[v]
                             ELSE lowLectureWeekCount[v]]
  /\ lastLowLectureWeek' =
       [v \in Volunteers |-> IF v \in t.written THEN t.last[v]
                             ELSE lastLowLectureWeek[v]]

\* notification.save({ session }) of the notifications it created, once committed
saveNotifications(t) == notifications' = notifications (+) t.staged

\* the report the evaluation writes
NewReport(t, at) ==
  [weekStart |-> t.weekStart, weekEnd |-> t.weekEnd, members |-> t.members,
   totalUsersProcessed |-> Len(t.users),
   membersWithLowLectures |-> Len(t.members), createdAt |-> at]

\* the save that keeps the new report only
saveReport_Replace(t, isCronJob) ==
  reports' = IF isCronJob THEN << NewReport(t, now) >> ELSE reports

\* if (isCronJob) { report = new LowLectureReport(...); report.save({ session }) }
saveReport(t, isCronJob) ==
  reports' = IF isCronJob THEN Append(reports, NewReport(t, now)) ELSE reports

\* session.commitTransaction() of checkLowLectureMembers(isCronJob)
commitTransaction(t, isCronJob) ==
  /\ saveUsers(t)
  /\ saveNotifications(t)
  /\ saveReport(t, isCronJob)

\* ---------------------------------------------------------- scheduled run
\* cron.schedule('0 0 * * 6', ..., { timezone: 'Asia/Riyadh' }): midnight of
\* Saturday in Riyadh is, on the clock of the process (TZ = 'Africa/Cairo'), the
\* first instant of Saturday or, when Cairo is an hour behind, the last hour of
\* Friday, for which Friday's last instant stands
cronFires(t) ==
  \/ getDay(t) = 6 /\ t = setHoursStart(t)
  \/ getDay(t) = 5 /\ t = setHoursEnd(t)

\* cron.schedule fires: checkLowLectureMembers(true) starts its transaction,
\* reads the accounts and computes the window.
CronStartUpTo(cap) ==
  /\ cronPc = "idle"
  /\ cronFires(now)
  /\ Len(reports) < cap
  /\ cronPc' = "running"
  /\ cronIdx' = 1
  /\ snap' = Snapshot
  /\ tx' = NewTx(weekStart(now), weekEnd(now))
  /\ cronOutcome' = NoOutcome
  /\ response' = NoResponse
  /\ UNCHANGED <<joinState, now, store, run2>>

CronStart == CronStartUpTo(MaxReports)

\* the account was written and committed after the snapshot sn was taken; before
\* holds the counters as the transaction read them
docChanged(uid, sn, before) ==
  \/ lectures[uid] # sn.lectures[uid]
  \/ students[uid] # sn.students[uid]
  \/ lowLectureWeekCount[uid] # before.count[uid]
  \/ lastLowLectureWeek[uid] # before.last[uid]

\* user.save({ session }) of an account that another transaction committed to after
\* this transaction's snapshot, or that another open transaction has written, is a
\* write conflict
conflicts(uid, before, after, sn, heldElsewhere) ==
  /\ uid \in after.written \ before.written
  /\ (docChanged(uid, sn, before) \/ uid \in heldElsewhere)

\* a write conflict of the first scheduled run
writeConflict(uid, before, after) ==
  conflicts(uid, before, after, snap, run2.tx.written)

\* a failure that leaves behind the accounts saved so far
Aborted_KeepsSaved ==
  /\ saveUsers(tx)
  /\ cronPc' = "idle"
  /\ cronIdx' = 0
  /\ snap' = NoSnap
  /\ tx' = NoTx
  /\ cronOutcome' = Outcome("failed", tx)
  /\ response' = NoResponse
  /\ UNCHANGED <<joinState, now, profile, lectureState, notifications, reports, run2>>

\* catch (error) { session.abortTransaction(); throw error }: nothing the
\* transaction staged reaches the store
Aborted ==
  /\ cronPc' = "idle"
  /\ cronIdx' = 0
  /\ snap' = NoSnap
  /\ tx' = NoTx
  /\ cronOutcome' = Outcome("failed", tx)
  /\ response' = NoResponse
  /\ UNCHANGED <<joinState, now, store, run2>>

\* one iteration of for (const user of users)
CronStep ==
  /\ cronPc = "running"
  /\ cronIdx <= Len(tx.users)
  /\ LET uid == tx.users[cronIdx]
         t2 == processUser(uid, Accounts(snap)[uid], tx.weekStart,
                           tx.weekEnd, TRUE, snap.notifications, tx)
     IN  IF writeConflict(uid, tx, t2)
         THEN Aborted
         ELSE /\ tx' = t2
              /\ cronIdx' = cronIdx + 1
              /\ cronOutcome' = NoOutcome
              /\ response' = NoResponse
              /\ UNCHANGED <<joinState, now, store, cronPc, snap, run2>>

\* report.save and session.commitTransaction(): everything staged becomes visible
CronCommit ==
  /\ cronPc = "running"
  /\ cronIdx > Len(tx.users)
  /\ commitTransaction(tx, TRUE)
  /\ cronPc' = "idle"
  /\ cronIdx' = 0
  /\ snap' = NoSnap
  /\ tx' = NoTx
  /\ cronOutcome' = Outcome("committed", tx)
  /\ response' = NoResponse
  /\ UNCHANGED <<joinState, now, profile, lectureState, run2>>

\* a read or a write of the run fails
CronFail ==
  /\ cronPc = "running"
  /\ Aborted

\* ------------------------------------------------- overlapping scheduled run
\* The schedule fires while a scheduled run is in progress: node-cron starts the
\* callback again, and checkLowLectureMembers(true) runs in a session of its own.
Cron2StartUpTo(cap) ==
  /\ cronPc = "running"
  /\ run2.pc = "idle"
  /\ cronFires(now)
  /\ Len(reports) + 1 < cap
  /\ run2' = [pc |-> "running", idx |-> 1, snap |-> Snapshot,
              tx |-> NewTx(weekStart(now), weekEnd(now))]
  /\ cronOutcome' = NoOutcome
  /\ response' = NoResponse
  /\ UNCHANGED <<joinState, now, store, cronPc, cronIdx, snap, tx>>

Cron2Start == Cron2StartUpTo(MaxReports)

\* the overlapping run ends in its catch block
Aborted2 ==
  /\ run2' = NoRun
  /\ cronOutcome' = Outcome("failed", run2.tx)
  /\ response' = NoResponse
  /\ UNCHANGED <<joinState, now, store, cronPc, cronIdx, snap, tx>>

\* one iteration of the overlapping run's loop over users
Cron2Step ==
  /\ run2.pc = "running"
  /\ run2.idx <= Len(run2.tx.users)
  /\ LET uid == run2.tx.users[run2.idx]
         t2 == processUser(uid, Accounts(run2.snap)[uid], run2.tx.weekStart,
                           run2.tx.weekEnd, TRUE, run2.snap.notifications, run2.tx)
     IN  IF conflicts(uid, run2.tx, t2, run2.snap, tx.written)
         THEN Aborted2
         ELSE /\ run2' = [run2 EXCEPT !.tx = t2, !.idx = @ + 1]
              /\ cronOutcome' = NoOutcome
              /\ response' = NoResponse
              /\ UNCHANGED <<joinState, now, store, cronPc, cronIdx, snap, tx>>

\* the overlapping run commits
Cron2Commit ==
  /\ run2.pc = "running"
  /\ run2.idx > Len(run2.tx.users)
  /\ commitTransaction(run2.tx, TRUE)
  /\ run2' = NoRun
  /\ cronOutcome' = Outcome("committed", run2.tx)
  /\ response' = NoResponse
  /\ UNCHANGED <<joinState, now, profile, lectureState, cronPc, cronIdx, snap, tx>>

\* a read or a write of the overlapping run fails
Cron2Fail ==
  /\ run2.pc = "running"
  /\ Aborted2

\* ---------------------------------------------------------- on-demand read
\* the lookup without the filter on weekStart
latestReports_AnyWeek(ws) ==
  {i \in 1..Len(reports) :
     \A j \in 1..Len(reports) : reports[j].createdAt <= reports[i].createdAt}

\* LowLectureReport.findOne({ weekStart }).sort({ createdAt: -1 }): a report of that
\* week with the latest createdAt
latestReports(ws) ==
  {i \in 1..Len(reports) :
     /\ reports[i].weekStart = ws
     /\ \A j \in 1..Len(reports) :
          reports[j].weekStart = ws => reports[j].createdAt <= reports[i].createdAt}

\* the body the handler sends for a stored report
cachedResponse(report) ==
  [kind |-> "cached", members |-> report.members,
   totalUsersProcessed |-> report.totalUsersProcessed,
   weekStart |-> report.weekStart, weekEnd |-> report.weekEnd,
   membersWithLowLectures |-> report.membersWithLowLectures]

\* the body checkLowLectureMembers returns
liveResponse(t) ==
  [kind |-> "live", members |-> t.members,
   totalUsersProcessed |-> Len(t.users),
   weekStart |-> t.weekStart, weekEnd |-> t.weekEnd,
   membersWithLowLectures |-> Len(t.members)]

\* checkLowLectureMembers(false) as the handler calls it: the evaluation in a
\* transaction of its own, over the store as it is
evaluateLive ==
  userLoop(findUsers, 1, Accounts(Snapshot), weekStart(now), weekEnd(now), FALSE,
           notifications, NewTx(weekStart(now), weekEnd(now)))

\* router.get('/low-lecture-members') by an admin
OnDemandRead ==
  /\ LET found == latestReports(weekStart(now))
         result == evaluateLive
     IN  IF found # {}
         THEN /\ \E i \in found : response' = cachedResponse(reports[i])
              /\ UNCHANGED <<counters, notifications, reports>>
         ELSE /\ response' = liveResponse(result)
              /\ commitTransaction(result, FALSE)
  /\ cronOutcome' = NoOutcome
  /\ UNCHANGED <<joinState, now, profile, lectureState, cronState>>

\* ------------------------------------------------------ lecture submission
\* the student e-mails a request may carry
InputEmails == {"S@x.com", "q@x.com"}

Lecture(subject, studentEmail, at) ==
  [subject |-> subject, studentEmail |-> studentEmail, createdAt |-> at]

\* the lecture records in the store
totalLectures == Len(lectures["v1"]) + Len(lectures["v2"])

\* the lectures submitted so far: each submission leaves a lecture_added
\* notification
lecturesSubmitted ==
  BagCardinality([n \in {m \in BagToSet(notifications) : m.type = "lecture_added"}
                    |-> notifications[n]])

\* user.students.some(s => s.email.toLowerCase() === normalizedStudentEmail); the
\* e-mails of the model carry no blanks, so toLowerCase is toLowerTrim on them
inRoster(uid, normalizedStudentEmail) ==
  \E i \in 1..Len(students[uid]) :
     toLowerTrim(students[uid][i].email) = normalizedStudentEmail

\* the answer to a submission
addedResponse(uid, lecture, count, hours) ==
  [kind |-> "added", userId |-> uid, lecture |-> lecture,
   lectureCount |-> count, volunteerHours |-> hours]

refusedResponse(status) == [kind |-> "refused", status |-> status]

\* the filter with the type of the monthly warning
staleNotes_OtherType(uid, subject, normalizedStudentEmail) ==
  Matching(notifications, uid, "low_lecture_count", subject, normalizedStudentEmail)

\* the notifications Notification.deleteMany removes on a submission
staleNotes(uid, subject, normalizedStudentEmail) ==
  Matching(notifications, uid, LowType, subject, normalizedStudentEmail)

\* the deletion made outside the session: it stays when the transaction aborts
abortedNotifications_OutsideSession(uid, subject, normalizedStudentEmail) ==
  DeleteAll(notifications, staleNotes(uid, subject, normalizedStudentEmail))

\* the stored notifications after session.abortTransaction() in the catch block:
\* deleteMany and notification.save ran in the session
abortedNotifications(uid, subject, normalizedStudentEmail) == notifications

\* router.post('/') of the lecture routes: one transaction.  A write to an account
\* that the scheduled run's open transaction has written is a write conflict (500).
SubmitLecture(uid, subject, studentEmail) ==
  LET normalizedStudentEmail == toLowerTrim(studentEmail)
      lecture == Lecture(subject, normalizedStudentEmail, now)
      status == IF ~inRoster(uid, normalizedStudentEmail) THEN 400
                ELSE IF jrStatus[uid] = "none" THEN 404
                ELSE IF uid \in tx.written \cup run2.tx.written THEN 500
                ELSE 200
  IN  /\ lecturesSubmitted < MaxLectures
      /\ IF status # 200
         THEN /\ response' = refusedResponse(status)
              /\ notifications' =
                   IF status = 500
                   THEN abortedNotifications(uid, subject, normalizedStudentEmail)
                   ELSE notifications
              /\ UNCHANGED lectureState
         ELSE /\ lectures' = [lectures EXCEPT ![uid] = Append(@, lecture)]
              /\ lectureCount' = [lectureCount EXCEPT ![uid] = @ + 1]
              /\ volunteerHours' = [volunteerHours EXCEPT ![uid] = @ + 2]
              /\ notifications' =
                   DeleteAll(notifications,
                             staleNotes(uid, subject, normalizedStudentEmail))
                   (+) SetToBag({Note(uid, "lecture_added", subject,
                                      normalizedStudentEmail, 0, 0)})
              /\ response' = addedResponse(uid, lecture, lectureCount[uid] + 1,
                                           volunteerHours[uid] + 2)
      /\ cronOutcome' = NoOutcome
      /\ UNCHANGED <<joinState, now, profile, counters, reports, cronState>>

\* ------------------------------------------- lecture submission, older route
\* startOfWeek of the older route: 00:00:00.000 of the Sunday on or before now
startOfWeek(t) == setDate(setHoursStart(t), 0 - getDay(t))

endOfWeek(t) == setHoursEnd(setDate(startOfWeek(t), 6))

\* lectureCounts[subj] of the older route: the lectures of this week, of which the
\* one just pushed is one, and one more for the submitted subject
lectureCounts(lecs, subj, subject, t) ==
  Len(SelectSeq(lecs, LAMBDA lec : /\ lec.createdAt >= startOfWeek(t)
                                   /\ lec.createdAt <= endOfWeek(t)
                                   /\ lec.subject = subj))
  + (IF subj = subject THEN 1 ELSE 0)

\* Object.keys(lectureCounts).filter(subj => lectureCounts[subj] < 2)
legacyUnderTarget(subs, lecs, subject, t) ==
  {k \in 1..Len(subs) : lectureCounts(lecs, subs[k], subject, t) < 2}

\* router.post('/') of the older lecture routes: a lecture without a student.  Its
\* monthly warning (low_lecture_count) needs lectureCountThisMonth < 2, and that
\* count is at least 2 once the lecture is pushed: the branch is never taken.
SubmitLectureLegacy(uid, subject) ==
  LET lecture == Lecture(subject, NoEmail, now)
      pushed == Append(lectures[uid], lecture)
      status == IF jrStatus[uid] = "none" THEN 404
                ELSE IF uid \in tx.written \cup run2.tx.written THEN 500
                ELSE 200
      warning == IF legacyUnderTarget(jrSubjects[uid], pushed, subject, now) # {}
                 THEN SetToBag({Note(uid, LowType, subject, NoEmail, 0, 0)})
                 ELSE EmptyBag
  IN  /\ lecturesSubmitted < MaxLectures
      /\ IF status # 200
         THEN /\ response' = refusedResponse(status)
              /\ UNCHANGED <<lectureState, notifications>>
         ELSE /\ lectures' = [lectures EXCEPT ![uid] = pushed]
              /\ lectureCount' = [lectureCount EXCEPT ![uid] = @ + 1]
              /\ volunteerHours' = [volunteerHours EXCEPT ![uid] = @ + 2]
              /\ notifications' =
                   DeleteAll(notifications,
                             {n \in BagToSet(notifications) :
                                /\ n.userId = uid
                                /\ n.type = LowType
                                /\ n.subject = subject})
                   (+) warning
                   (+) SetToBag({Note(uid, "lecture_added", subject, NoEmail, 0, 0)})
              /\ response' = addedResponse(uid, lecture, lectureCount[uid] + 1,
                                           volunteerHours[uid] + 2)
      /\ cronOutcome' = NoOutcome
      /\ UNCHANGED <<joinState, now, profile, counters, reports, cronState>>

\* ---------------------------------------------------------- lecture deletion
\* the sequence without its k-th element
pull(seq, k) == [i \in 1..(Len(seq) - 1) |-> IF i < k THEN seq[i] ELSE seq[i + 1]]

\* the deletion that leaves the total as it was
decrement_Kept(value, fallback, step) == value

\* Math.max(0, (value || fallback) - step)
decrement(value, fallback, step) ==
  LET v == IF value = 0 THEN fallback ELSE value
  IN  IF v - step < 0 THEN 0 ELSE v - step

\* the answer to a deletion
deletedResponse(uid, count, hours) ==
  [kind |-> "deleted", userId |-> uid, lectureCount |-> count,
   volunteerHours |-> hours]

\* router.delete('/:lectureId') by an admin: one transaction
DeleteLecture(uid, k) ==
  LET status == IF jrStatus[uid] = "none" THEN 404
                ELSE IF uid \in tx.written \cup run2.tx.written THEN 500
                ELSE 200
  IN  /\ k \in 1..Len(lectures[uid])
      /\ IF status # 200
         THEN /\ response' = refusedResponse(status)
              /\ UNCHANGED lectureState
         ELSE /\ lectures' = [lectures EXCEPT ![uid] = pull(@, k)]
              /\ lectureCount' = [lectureCount EXCEPT ![uid] = decrement(@, 1, 1)]
              /\ volunteerHours' = [volunteerHours EXCEPT ![uid] = decrement(@, 2, 2)]
              /\ response' = deletedResponse(uid, decrement(lectureCount[uid], 1, 1),
                                             decrement(volunteerHours[uid], 2, 2))
      /\ cronOutcome' = NoOutcome
      /\ UNCHANGED <<joinState, now, profile, counters, notifications, reports, cronState>>

\* the answer of the older deletion route
legacyDeletedResponse(uid, count) ==
  [kind |-> "deleted", userId |-> uid, lectureCount |-> count,
   volunteerHours |-> volunteerHours[uid]]

\* router.delete('/:lectureId') of the api routes, by an admin: no transaction, no
\* membership record, lectureCount = (lectureCount || 1) - 1.  Its save waits for
\* the transactions that have written the account.
DeleteLectureLegacy(uid, k) ==
  LET count == (IF lectureCount[uid] = 0 THEN 1 ELSE lectureCount[uid]) - 1
  IN  /\ k \in 1..Len(lectures[uid])
      /\ uid \notin tx.written \cup run2.tx.written
      /\ lectures' = [lectures EXCEPT ![uid] = pull(@, k)]
      /\ lectureCount' = [lectureCount EXCEPT ![uid] = count]
      /\ response' = legacyDeletedResponse(uid, count)
      /\ cronOutcome' = NoOutcome
      /\ UNCHANGED <<joinState, now, profile, volunteerHours, counters, notifications, reports,
                     cronState>>

\* ------------------------------------------------------- roster maintenance
\* the roster a request to update-details carries: no student
RosterInputs == { <<>> }

\* the answer to an update
updatedResponse(uid, roster) == [kind |-> "updated", userId |-> uid, students |-> roster]

\* router.put('/members/:id/update-details'), with the stored hours and subjects
\* sent back and another list of students.  Its saves are not in a transaction:
\* they wait while an open transaction holds a write on the account.
UpdateDetails(uid, roster) ==
  /\ uid \notin tx.written \cup run2.tx.written
  /\ roster # students[uid]
  /\ IF jrStatus[uid] = "none" THEN
          /\ response' = refusedResponse(404)
          /\ UNCHANGED students
     ELSE IF jrStatus[uid] # "Approved" THEN
          /\ response' = refusedResponse(400)
          /\ UNCHANGED students
     ELSE /\ students' = [students EXCEPT ![uid] = roster]
          /\ response' = updatedResponse(uid, roster)
  /\ cronOutcome' = NoOutcome
  /\ UNCHANGED <<joinState, now, role, jrStatus, jrSubjects, counters, lectureState,
                 notifications, reports, cronState>>

\* the student e-mails a request to add-student may carry
InputStudentEmails == {"s@x.com", "S@x.com", "t@x.com"}

\* the answer to an added student
studentAddedResponse(uid, roster) ==
  [kind |-> "studentAdded", userId |-> uid, students |-> roster]

\* router.post('/members/:id/add-student') with a name, a phone and no subjects.
\* Its saves are not in a transaction: they wait while an open transaction holds a
\* write on the account.
AddStudent(uid, email) ==
  LET newStudent == [email |-> email, subjects |-> <<>>]
      status == IF jrStatus[uid] = "none" THEN 404
                ELSE IF jrStatus[uid] # "Approved" THEN 400
                ELSE IF \E i \in 1..Len(students[uid]) : students[uid][i].email = email
                     THEN 400
                ELSE 200
  IN  /\ uid \notin tx.written \cup run2.tx.written
      /\ Len(students[uid]) < MaxStudents
      /\ IF status # 200
         THEN /\ response' = refusedResponse(status)
              /\ UNCHANGED students
         ELSE /\ students' = [students EXCEPT ![uid] = Append(@, newStudent)]
              /\ response' = studentAddedResponse(uid, Append(students[uid], newStudent))
      /\ cronOutcome' = NoOutcome
      /\ UNCHANGED <<joinState, now, role, jrStatus, jrSubjects, counters, lectureState,
                     notifications, reports, cronState>>

\* the rosters with subject assignments an account may be given
AssignedRosters == { RosterA }

\* the answer to an assignment
assignedResponse(uid, roster) == [kind |-> "assigned", userId |-> uid, students |-> roster]

\* The students of a volunteer are given subject assignments with their minimums:
\* the operation that stores them is not among the routes above, which accept
\* subjects as strings only.  It writes the account outside a transaction.
AssignSubjects(uid, roster) ==
  /\ uid \notin tx.written \cup run2.tx.written
  /\ jrStatus[uid] = "Approved"
  /\ roster # students[uid]
  /\ students' = [students EXCEPT ![uid] = roster]
  /\ response' = assignedResponse(uid, roster)
  /\ cronOutcome' = NoOutcome
  /\ UNCHANGED <<joinState, now, role, jrStatus, jrSubjects, counters, lectureState,
                 notifications, reports, cronState>>

\* ------------------------------------------------------------------- Next
Next ==
  \/ Tick
  \/ CronStart
  \/ CronStep
  \/ CronCommit
  \/ CronFail
  \/ OnDemandRead
  \/ \E uid \in Volunteers, subject \in Subjects, studentEmail \in InputEmails :
       SubmitLecture(uid, subject, studentEmail)
  \/ \E uid \in Volunteers, subject \in Subjects : SubmitLectureLegacy(uid, subject)

Spec == Init /\ [][Next]_vars

\* ------------------------------------------------------ the flagged members
\* the lectures of lecs given to the student email in the subject name within
\* [ws, we]
MatchingLectures(lecs, ws, we, email, name) ==
  {n \in 1..Len(lecs) : /\ ws <= lecs[n].createdAt
                        /\ lecs[n].createdAt <= we
                        /\ toLowerTrim(lecs[n].studentEmail) = toLowerTrim(email)
                        /\ lecs[n].subject = name}

\* the (student, subject assignment) pairs of a volunteer, as positions in the
\* roster, with fewer matching lectures than the assignment's minimum
UnderPairs(uid, lecs, ws, we) ==
  {p \in UNION {{<<i, k>> : k \in 1..Len(students[uid][i].subjects)} :
                  i \in 1..Len(students[uid])} :
       Cardinality(MatchingLectures(lecs[uid], ws, we, students[uid][p[1]].email,
                                     students[uid][p[1]].subjects[p[2]].name))
          < students[uid][p[1]].subjects[p[2]].minLectures}

\* the volunteers an evaluation has to list
Flagged(lecs, ws, we) ==
  {v \in Volunteers : /\ role[v] = "user"
                      /\ jrStatus[v] = "Approved"
                      /\ UnderPairs(v, lecs, ws, we) # {}}

\* the position of x among the elements of S, in increasing order
Rank(S, x) == Cardinality({y \in S : y <= x})

\* members lists exactly the flagged volunteers, each with exactly its students
\* and subject assignments under target, in roster order
MembersExact(members, lecs, ws, we) ==
  /\ {members[n].id : n \in 1..Len(members)} = Flagged(lecs, ws, we)
  /\ Len(members) = Cardinality(Flagged(lecs, ws, we))
  /\ \A n \in 1..Len(members) :
       LET m == members[n]
           pairs == UnderPairs(m.id, lecs, ws, we)
           studs == {p[1] : p \in pairs}
       IN  /\ Len(m.underTargetStudents) = Cardinality(studs)
           /\ \A i \in studs :
                LET e == m.underTargetStudents[Rank(studs, i)]
                    subs == {p[2] : p \in {q \in pairs : q[1] = i}}
                    student == students[m.id][i]
                IN  /\ e.studentEmail = toLowerTrim(student.email)
                    /\ Len(e.underTargetSubjects) = Cardinality(subs)
                    /\ \A k \in subs :
                         e.underTargetSubjects[Rank(subs, k)] =
                           [name |-> student.subjects[k].name,
                            minLectures |-> student.subjects[k].minLectures,
                            deliveredLectures |->
                              Cardinality(MatchingLectures(lecs[m.id], ws, we,
                                student.email, student.subjects[k].name))]

\* the scheduled run has processed every account
CronDone == cronPc = "running" /\ cronIdx > Len(tx.users)

\* C1: the member list of every evaluation, the live one of an on-demand read and
\* the one a scheduled run holds when it has processed every account, lists exactly
\* the volunteers with role user and an Approved membership record that have a
\* (student, subject assignment) pair with fewer matching lectures in
\* [weekStart, weekEnd] than the assignment's minLectures; each with exactly the
\* students having such a pair, and for each of these exactly those pairs, with
\* deliveredLectures the number counted and minLectures the configured minimum.
C1_MembersExact ==
  /\ response.kind = "live" =>
       MembersExact(response.members, lectures, weekStart(now), weekEnd(now))
  /\ CronDone => MembersExact(tx.members, snap.lectures, tx.weekStart, tx.weekEnd)

\* a scheduled run lists both volunteers, one of them with one lecture delivered
\* of the two its student needs
C1_Witness ==
  /\ CronDone
  /\ Len(tx.members) = 2
  /\ \E n \in 1..Len(tx.members) :
       \E i \in 1..Len(tx.members[n].underTargetStudents) :
         \E k \in 1..Len(tx.members[n].underTargetStudents[i].underTargetSubjects) :
           LET e == tx.members[n].underTargetStudents[i].underTargetSubjects[k]
           IN  e.deliveredLectures = 1 /\ e.minLectures = 2

\* ------------------------------------------------------- the rolling counter
\* this step commits a scheduled run
Commits == cronOutcome'.result = "committed"

\* the volunteers the run that is about to commit found under target
FlaggedByRun == Flagged(snap.lectures, tx.weekStart, tx.weekEnd)

\* a report lists the volunteer
Lists(report, v) == \E n \in 1..Len(report.members) : report.members[n].id = v

\* C2: a scheduled run that computes the week W for which a volunteer's counter was
\* already incremented (lastLowLectureWeek = W) and finds the volunteer under target
\* again commits without changing the volunteer's lowLectureWeekCount or
\* lastLowLectureWeek.
C2_SameWeekCountsOnce ==
  [][Commits =>
       \A v \in FlaggedByRun :
         lastLowLectureWeek[v] = Date(tx.weekStart) =>
           /\ lowLectureWeekCount'[v] = lowLectureWeekCount[v]
           /\ lastLowLectureWeek'[v] = lastLowLectureWeek[v]]_vars

\* two scheduled runs of the same week have committed, both list the volunteer,
\* and the counter stands at 1
C2_Witness ==
  /\ cronOutcome.result = "committed"
  /\ Len(reports) = 2
  /\ reports[1].weekStart = reports[2].weekStart
  /\ \E v \in Volunteers :
       /\ Lists(reports[1], v) /\ Lists(reports[2], v)
       /\ lowLectureWeekCount[v] = 1
       /\ lastLowLectureWeek[v] = Date(reports[2].weekStart)

\* C8: a scheduled run that computes a week W' later than the week W a volunteer
\* was last flagged for (lastLowLectureWeek = W < W') and finds the volunteer still
\* under target commits with lowLectureWeekCount increased by exactly 1 and
\* lastLowLectureWeek = W'.
C8_NextWeekCountsOne ==
  [][Commits =>
       \A v \in FlaggedByRun :
         (lastLowLectureWeek[v] # NULL /\ valueOf(lastLowLectureWeek[v]) < tx.weekStart) =>
           /\ lowLectureWeekCount'[v] = lowLectureWeekCount[v] + 1
           /\ lastLowLectureWeek'[v] = Date(tx.weekStart)]_vars

\* two scheduled runs of consecutive weeks have committed, both list the
\* volunteer, and the counter stands at 2
C8_Witness ==
  /\ cronOutcome.result = "committed"
  /\ Len(reports) = 2
  /\ reports[1].weekStart < reports[2].weekStart
  /\ \E v \in Volunteers :
       /\ Lists(reports[1], v) /\ Lists(reports[2], v)
       /\ lowLectureWeekCount[v] = 2
       /\ lastLowLectureWeek[v] = Date(reports[2].weekStart)

\* ------------------------------------------------------------ on-demand reads
\* this step answers GET /low-lecture-members
Reads == response'.kind \in {"cached", "live"}

\* C3: an on-demand read, served from a stored report or by the live evaluation,
\* changes no lowLectureWeekCount and no lastLowLectureWeek, creates and deletes no
\* notification and creates no report; and it changes nothing of a scheduled run in
\* progress (what the run has read and what it has staged), so that the run ends as
\* it would have without the read.
C3_ReadsAreReadOnly ==
  [][Reads => UNCHANGED <<store, cronState>>]_vars

\* a live answer listing a member is given while a scheduled run has staged a
\* counter update
C3_Witness ==
  /\ response.kind = "live"
  /\ response.members # <<>>
  /\ cronPc = "running"
  /\ tx.written # {}

\* the stored reports of the week starting at ws
ReportsOfWeek(ws) == {i \in 1..Len(reports) : reports[i].weekStart = ws}

\* C9: when a stored report has the weekStart of the window computed at query time,
\* the on-demand read answers with the members and counts of the latest such report,
\* as stored; when there is none, it answers with the live evaluation and stores no
\* report.
C9_CachedOrLive ==
  [][Reads =>
       LET hits == ReportsOfWeek(weekStart(now))
       IN  IF hits # {}
           THEN /\ response'.kind = "cached"
                /\ \E i \in hits :
                     /\ \A j \in hits : reports[j].createdAt <= reports[i].createdAt
                     /\ response'.members = reports[i].members
                     /\ response'.totalUsersProcessed = reports[i].totalUsersProcessed
                     /\ response'.membersWithLowLectures =
                          reports[i].membersWithLowLectures
                     /\ response'.weekStart = reports[i].weekStart
                     /\ response'.weekEnd = reports[i].weekEnd
           ELSE /\ response'.kind = "live"
                /\ MembersExact(response'.members, lectures, weekStart(now),
                                weekEnd(now))
                /\ reports' = reports]_vars

\* a stored report is served although the lectures of a member it lists have
\* changed since
C9_Witness ==
  /\ response.kind = "cached"
  /\ \E n \in 1..Len(response.members) :
       response.members[n].lectures # lectures[response.members[n].id]

\* ------------------------------------------------------------- notifications
\* the low_lecture_count_per_subject notifications of a tuple, with multiplicity
TupleCount(uid, subject, studentEmail) ==
  BagCardinality([n \in {m \in BagToSet(notifications) :
                            /\ m.type = LowType
                            /\ m.userId = uid
                            /\ m.subject = subject
                            /\ m.studentEmail = studentEmail} |-> notifications[n]])

C10_SubmissionClearsTuple ==
  (response.kind = "added" /\ response.lecture.studentEmail # NoEmail) =>
     TupleCount(response.userId, response.lecture.subject,
                response.lecture.studentEmail) = 0

\* the first lecture of a volunteer is submitted after a scheduled run listed
\* the tuple, which needs two lectures: the run's notification is gone
C10_Witness ==
  /\ response.kind = "added"
  /\ response.lecture.studentEmail # NoEmail
  /\ response.lectureCount = 1
  /\ \E r \in 1..Len(reports) : \E n \in 1..Len(reports[r].members) :
       LET m == reports[r].members[n]
       IN  /\ m.id = response.userId
           /\ \E i \in 1..Len(m.underTargetStudents) :
                /\ m.underTargetStudents[i].studentEmail = response.lecture.studentEmail
                /\ \E k \in 1..Len(m.underTargetStudents[i].underTargetSubjects) :
                     LET e == m.underTargetStudents[i].underTargetSubjects[k]
                     IN  e.name = response.lecture.subject /\ e.minLectures = 2

\* -------------------------------------------------------------- atomic runs
\* this step is a step of the scheduled run
RunSteps == cronState' # cronState

\* C5: a scheduled run is all-or-nothing.  No step of a run that does not commit
\* it changes the store; a run that fails leaves the store as it is and hands the
\* failure to its caller; the step that commits a run makes its report, its counter
\* updates and its new notifications visible together.
C5_AllOrNothing ==
  [][/\ (RunSteps /\ ~Commits) => UNCHANGED store
     /\ (cronPc = "running" /\ cronPc' = "idle" /\ ~Commits) =>
          cronOutcome'.result = "failed"
     /\ Commits =>
          /\ reports' = Append(reports,
                [weekStart |-> tx.weekStart, weekEnd |-> tx.weekEnd,
                 members |-> tx.members, totalUsersProcessed |-> Len(tx.users),
                 membersWithLowLectures |-> Len(tx.members), createdAt |-> now])
          /\ \A v \in tx.written :
               /\ lowLectureWeekCount'[v] = tx.count[v]
               /\ lastLowLectureWeek'[v] = tx.last[v]
          /\ \A v \in Volunteers \ tx.written :
               /\ lowLectureWeekCount'[v] = lowLectureWeekCount[v]
               /\ lastLowLectureWeek'[v] = lastLowLectureWeek[v]
          /\ notifications' = notifications (+) tx.staged]_vars

\* a run has failed after it saved a counter and created a notification, and the
\* store shows neither
C5_Witness ==
  /\ cronOutcome.result = "failed"
  /\ cronOutcome.written # {}
  /\ cronOutcome.created > 0
  /\ notifications = EmptyBag
  /\ reports = <<>>
  /\ \A v \in Volunteers : lowLectureWeekCount[v] = 0 /\ lastLowLectureWeek[v] = NULL

\* -------------------------------------------------- with the admin's routes
\* the engine together with the routes by which an admin deletes a lecture and
\* replaces a roster
NextRoster ==
  \/ Tick
  \/ CronStart
  \/ CronStep
  \/ CronCommit
  \/ CronFail
  \/ OnDemandRead
  \/ \E uid \in Volunteers, subject \in Subjects, studentEmail \in InputEmails :
       SubmitLecture(uid, subject, studentEmail)
  \/ \E uid \in Volunteers, roster \in RosterInputs : UpdateDetails(uid, roster)

SpecRoster == Init /\ [][NextRoster]_vars

NextDelete ==
  \/ Tick
  \/ CronStart
  \/ CronStep
  \/ CronCommit
  \/ CronFail
  \/ OnDemandRead
  \/ \E uid \in Volunteers, subject \in Subjects, studentEmail \in InputEmails :
       SubmitLecture(uid, subject, studentEmail)
  \/ \E uid \in Volunteers, k \in 1..MaxLectures : DeleteLecture(uid, k)

SpecDelete == Init /\ [][NextDelete]_vars

\* ------------------------------------------------------------ counter resets
\* the volunteers with students that the run about to commit found compliant
CompliantInRun ==
  {v \in Volunteers : /\ role[v] = "user"
                      /\ jrStatus[v] = "Approved"
                      /\ Len(snap.students[v]) > 0
                      /\ UnderPairs(v, snap.lectures, tx.weekStart, tx.weekEnd) = {}}

\* C12: a scheduled run that commits leaves every volunteer with an Approved
\* membership and students, none of whom has an under-target subject, with
\* lowLectureWeekCount = 0 and lastLowLectureWeek cleared, whatever the counter was.
C12_CompliantIsReset ==
  [][Commits =>
       \A v \in CompliantInRun :
         lowLectureWeekCount'[v] = 0 /\ lastLowLectureWeek'[v] = NULL]_vars

\* a volunteer listed by the first run has delivered every lecture of the week the
\* second run evaluates, and the second run has taken the counter back to 0
C12_Witness ==
  /\ cronOutcome.result = "committed"
  /\ cronOutcome.written # {}
  /\ Len(reports) = 2
  /\ \E v \in cronOutcome.written :
       /\ Lists(reports[1], v)
       /\ ~Lists(reports[2], v)
       /\ Len(students[v]) > 0
       /\ lowLectureWeekCount[v] = 0
       /\ lastLowLectureWeek[v] = NULL

\* -------------------------------------------------- volunteers without students
\* the approved volunteers that have no student in the rosters ros
ZeroStudents(ros) ==
  {v \in Volunteers : /\ role[v] = "user" /\ jrStatus[v] = "Approved"
                      /\ Len(ros[v]) = 0}

\* C13: a volunteer with zero students is in the member list of no evaluation,
\* neither of the report a scheduled run stores nor of a live answer, and a
\* scheduled run that commits leaves its lowLectureWeekCount at 0 and its
\* lastLowLectureWeek null.
C13_NoStudentsNeverFlagged ==
  [][/\ Commits =>
          \A v \in ZeroStudents(snap.students) :
            /\ ~Lists(reports'[Len(reports')], v)
            /\ lowLectureWeekCount'[v] = 0
            /\ lastLowLectureWeek'[v] = NULL
     /\ response'.kind = "live" =>
          \A v \in ZeroStudents(students) : ~Lists(response', v)]_vars

\* a volunteer listed by the first report has lost its students since, and the
\* second run has reset its counter
C13_Witness ==
  /\ cronOutcome.result = "committed"
  /\ Len(reports) = 2
  /\ \E v \in cronOutcome.written :
       /\ Lists(reports[1], v)
       /\ reports[1].members[1].lowLectureWeekCount = 1
       /\ ~Lists(reports[2], v)
       /\ Len(students[v]) = 0
       /\ lowLectureWeekCount[v] = 0
       /\ lastLowLectureWeek[v] = NULL

\* ------------------------------------------------------- skipped volunteers
\* the volunteers with role user whose membership record is missing or not Approved
SkippedVolunteers ==
  {v \in Volunteers : role[v] = "user" /\ jrStatus[v] # "Approved"}

\* the notifications addressed to the volunteer
NotesOf(bag, v) == [n \in {m \in BagToSet(bag) : m.userId = v} |-> bag[n]]

\* C15: a volunteer with role user whose membership record is missing or not
\* Approved is in the member list of no evaluation, neither of the report a
\* scheduled run stores nor of a live answer, and a scheduled run that commits
\* creates no notification for it and leaves its lowLectureWeekCount and
\* lastLowLectureWeek as they were.
C15_SkippedUntouched ==
  [][/\ Commits =>
          \A v \in SkippedVolunteers :
            /\ ~Lists(reports'[Len(reports')], v)
            /\ NotesOf(notifications', v) = NotesOf(notifications, v)
            /\ lowLectureWeekCount'[v] = lowLectureWeekCount[v]
            /\ lastLowLectureWeek'[v] = lastLowLectureWeek[v]
     /\ response'.kind = "live" =>
          \A v \in SkippedVolunteers : ~Lists(response', v)]_vars

\* a scheduled run has committed a report that lists the approved volunteer and not
\* the one whose join request is pending, whose student has had no lecture either
C15_Witness ==
  /\ cronOutcome.result = "committed"
  /\ jrStatus["v2"] = "Pending"
  /\ Lists(reports[Len(reports)], "v1")
  /\ ~Lists(reports[Len(reports)], "v2")
  /\ UnderPairs("v2", lectures, reports[Len(reports)].weekStart,
                reports[Len(reports)].weekEnd) # {}
  /\ lowLectureWeekCount["v2"] = 0
  /\ NotesOf(notifications, "v2") = EmptyBag

\* ------------------------------------------- notifications of a scheduled run
\* the low_lecture_count_per_subject notifications of a tuple in bag, with
\* multiplicity
LowCount(bag, uid, subject, studentEmail) ==
  BagCardinality([n \in Matching(bag, uid, LowType, subject, studentEmail) |-> bag[n]])

\* the (volunteer, subject, student e-mail) tuples the run that is about to commit
\* found under target
UnderTuplesOfRun ==
  UNION {{<<v, students[v][p[1]].subjects[p[2]].name,
            toLowerTrim(students[v][p[1]].email)>> :
            p \in UnderPairs(v, snap.lectures, tx.weekStart, tx.weekEnd)} :
           v \in FlaggedByRun}

\* the student e-mails a notification may carry
NoteEmails == {"s@x.com", "t@x.com", "q@x.com", NoEmail}

\* C16: a scheduled run that commits creates one low_lecture_count_per_subject
\* notification for each under-target (volunteer, subject, student) tuple for which
\* the run saw none, and none for any other tuple; every notification that existed
\* stays as it was, with the required and delivered counts it recorded.
C16_CreatedIffMissing ==
  [][Commits =>
       /\ \A v \in Volunteers, name \in Subjects, email \in NoteEmails :
            LowCount(notifications', v, name, email)
              - LowCount(notifications, v, name, email)
            = IF /\ <<v, name, email>> \in UnderTuplesOfRun
                 /\ LowCount(snap.notifications, v, name, email) = 0
              THEN 1 ELSE 0
       /\ \A n \in BagToSet(notifications) :
            /\ n \in BagToSet(notifications')
            /\ notifications'[n] >= notifications[n]]_vars

\* the second scheduled run lists a tuple with one lecture delivered, and the
\* tuple's only notification is the first run's, which recorded none
C16_Witness ==
  /\ cronOutcome.result = "committed"
  /\ Len(reports) = 2
  /\ Lists(reports[2], "v1")
  /\ reports[2].members[1].id = "v1"
  /\ reports[2].members[1].underTargetStudents[1].underTargetSubjects[1].deliveredLectures = 1
  /\ LowCount(notifications, "v1", "Math", "s@x.com") = 1
  /\ \E n \in Matching(notifications, "v1", LowType, "Math", "s@x.com") :
       n.currentLectures = 0

\* C17: after a lecture submission deleted the notification of a tuple, the next
\* scheduled run to commit that finds the tuple's pair under target in its window
\* leaves exactly one low_lecture_count_per_subject notification for the tuple.
\* Stated for every tuple a committing run finds under target: a tuple can only
\* lack its notification after the commit when a submission deleted it.
C17_ReconciledByNextRun ==
  [][Commits =>
       \A t \in UnderTuplesOfRun : LowCount(notifications', t[1], t[2], t[3]) = 1]_vars

\* ------------------------------------------------------------ stored reports
\* C18: the step that commits a scheduled run adds exactly one report and leaves
\* the reports stored before as they were; no other step, of a scheduled run, an
\* on-demand read, a lecture submission or a lecture deletion, changes the stored
\* reports.
C18_ReportsAppendOnly ==
  [][/\ Commits =>
          /\ Len(reports') = Len(reports) + 1
          /\ SubSeq(reports', 1, Len(reports)) = reports
     /\ ~Commits => reports' = reports]_vars

\* a second run has committed after two lectures were submitted and one of them
\* deleted, and both reports are stored
C18_Witness ==
  /\ cronOutcome.result = "committed"
  /\ Len(reports) = 2
  /\ reports[1].createdAt < reports[2].createdAt
  /\ lecturesSubmitted = 2
  /\ totalLectures = 1

\* C19: the stored reports hold at most one report per weekStart.
C19_OneReportPerWeek ==
  \A i, j \in 1..Len(reports) :
     i # j => reports[i].weekStart # reports[j].weekStart

\* the volunteers an evaluation does not skip
EvaluatedVolunteers ==
  {v \in Volunteers : role[v] = "user" /\ jrStatus[v] = "Approved"}

\* C20: in every stored report membersWithLowLectures is the number of entries of
\* members, and totalUsersProcessed is the number of volunteers with role user and
\* an Approved membership record, the skipped ones not counted.
C20_ReportCounts ==
  \A i \in 1..Len(reports) :
     /\ reports[i].membersWithLowLectures = Len(reports[i].members)
     /\ reports[i].totalUsersProcessed = Cardinality(EvaluatedVolunteers)

\* --------------------------------------------- students without subjects
\* every member of the list has a student with subject assignments, and each of
\* its entries is for such a student and names a subject
NoEntryWithoutSubjects(members, ros) ==
  \A n \in 1..Len(members) :
     LET m == members[n]
         withSubjects == {i \in 1..Len(ros[m.id]) : Len(ros[m.id][i].subjects) > 0}
     IN  /\ withSubjects # {}
         /\ Len(m.underTargetStudents) <= Cardinality(withSubjects)
         /\ \A k \in 1..Len(m.underTargetStudents) :
              /\ Len(m.underTargetStudents[k].underTargetSubjects) > 0
              /\ \E i \in withSubjects :
                   toLowerTrim(ros[m.id][i].email) = m.underTargetStudents[k].studentEmail

\* C21: in the member list of every evaluation, live or scheduled, no entry is for
\* a student without subject assignments, and a volunteer all of whose students
\* lack subject assignments is not listed.
C21_NoSubjectsNoEntry ==
  /\ response.kind = "live" => NoEntryWithoutSubjects(response.members, students)
  /\ CronDone => NoEntryWithoutSubjects(tx.members, snap.students)

\* a live answer lists the first volunteer and not the second, whose only student
\* has no subject assignment
C21_Witness ==
  /\ response.kind = "live"
  /\ Lists(response, "v1")
  /\ ~Lists(response, "v2")
  /\ students["v2"] = RosterC

\* ------------------------------------------------------- lecture counting
\* the instants around the ends of the windows the model computes, up to the
\* instant it starts at: a lecture is dated by the server when it is submitted
CountDates ==
  {at \in UNION {{weekStart(t) - 1, weekStart(t), weekEnd(t), weekEnd(t) + 1} :
                   t \in ClockStops} : at <= setHoursEnd(0)}

\* the lectures a volunteer may hold: of the roster's subject or of the same name in
\* another case, for the roster's student with the e-mail written in another case,
\* for another student or for none
CountLectures ==
  {Lecture(subject, email, at) :
     subject \in {"Math", "math"}, email \in {"s@x.com", "q@x.com", NoEmail},
     at \in CountDates}

\* the sequences of at most n elements of S
RECURSIVE SeqsUpTo(_, _)
SeqsUpTo(S, n) ==
  IF n = 0 THEN {<<>>}
  ELSE LET shorter == SeqsUpTo(S, n - 1)
       IN  shorter \cup {Append(q, x) : q \in shorter, x \in S}

\* an approved volunteer teaching S@x.com Math, two lectures a week, holds any
\* lectures; the other account has no student
InitCount ==
  /\ now = setHoursEnd(0)
  /\ role = [v \in Volunteers |-> "user"]
  /\ jrStatus = [v \in Volunteers |-> "Approved"]
  /\ jrSubjects = [v \in Volunteers |-> IF v = "v1" THEN <<"Math">> ELSE <<>>]
  /\ students = [v \in Volunteers |-> IF v = "v1" THEN RosterA ELSE <<>>]
  /\ \E lecs \in SeqsUpTo(CountLectures, MaxLectures) :
       /\ lectures = [v \in Volunteers |-> IF v = "v1" THEN lecs ELSE <<>>]
       /\ lectureCount = [v \in Volunteers |-> IF v = "v1" THEN Len(lecs) ELSE 0]
       /\ volunteerHours = [v \in Volunteers |-> IF v = "v1" THEN 2 * Len(lecs) ELSE 0]
  /\ lowLectureWeekCount = [v \in Volunteers |-> 0]
  /\ lastLowLectureWeek = [v \in Volunteers |-> NULL]
  /\ notifications = EmptyBag
  /\ reports = <<>>
  /\ cronPc = "idle"
  /\ cronIdx = 0
  /\ cronOutcome = NoOutcome
  /\ snap = NoSnap
  /\ tx = NoTx
  /\ run2 = NoRun
  /\ response = NoResponse
  /\ hasAccount = Volunteers
  /\ rejecting = {}

\* the evaluations, scheduled and on demand, over the passing weeks
NextCount ==
  \/ Tick
  \/ CronStart
  \/ CronStep
  \/ CronCommit
  \/ CronFail
  \/ OnDemandRead

SpecCount == InitCount /\ [][NextCount]_vars

\* two e-mail addresses that differ at most in the case of their letters
SameEmail(a, b) ==
  \E c \in {{"s@x.com", "S@x.com"}, {"q@x.com"}, {"t@x.com"}} : a \in c /\ b \in c

\* the lectures of lecs to count for the student S@x.com in Math within [ws, we]
Counted(lecs, ws, we) ==
  {n \in 1..Len(lecs) : /\ ws <= lecs[n].createdAt
                        /\ lecs[n].createdAt <= we
                        /\ lecs[n].studentEmail # NoEmail
                        /\ SameEmail(lecs[n].studentEmail, "S@x.com")
                        /\ lecs[n].subject = "Math"}

\* members reports the volunteer v1 with d lectures delivered when d is under the
\* minimum of 2, and does not list v1 otherwise
ReportsDelivered(members, d) ==
  IF d < 2
  THEN /\ Len(members) = 1
       /\ members[1].id = "v1"
       /\ members[1].underTargetStudents[1].underTargetSubjects[1].deliveredLectures = d
  ELSE members = <<>>

\* C14: the lectures counted for a (student, subject) pair are those whose student
\* e-mail is the student's up to the case of letters, whose subject is the
\* assignment's name letter for letter, and whose date lies in [weekStart, weekEnd],
\* both ends included; a lecture without student e-mail is counted for no student.
C14_CountingRules ==
  /\ response.kind = "live" =>
       ReportsDelivered(response.members,
                        Cardinality(Counted(lectures["v1"], weekStart(now), weekEnd(now))))
  /\ CronDone =>
       ReportsDelivered(tx.members,
                        Cardinality(Counted(snap.lectures["v1"], tx.weekStart, tx.weekEnd)))

\* a live answer counts one lecture, the one made at weekEnd for the student written
\* in another case, while the volunteer also holds one made just after weekEnd
C14_Witness ==
  /\ response.kind = "live"
  /\ lectures["v1"] = << Lecture("Math", "s@x.com", weekEnd(now)),
                         Lecture("Math", "s@x.com", weekEnd(now) + 1) >>
  /\ ReportsDelivered(response.members, 1)

\* ------------------------------------------------------------- rosters
\* the accounts start with rosters in which no e-mail occurs twice
InitStudents ==
  /\ Init
  /\ students["v2"] # RosterB

\* the routes by which an admin changes a roster, and the read that evaluates it
NextStudents ==
  \/ \E uid \in Volunteers, email \in InputStudentEmails : AddStudent(uid, email)
  \/ \E uid \in Volunteers, roster \in RosterInputs : UpdateDetails(uid, roster)
  \/ OnDemandRead

SpecStudents == InitStudents /\ [][NextStudents]_vars

\* C22: no roster holds two students whose e-mails are equal ignoring case.
C22_RosterEmailsUnique ==
  \A v \in Volunteers : \A i, j \in 1..Len(students[v]) :
     i # j => ~SameEmail(students[v][i].email, students[v][j].email)

\* ------------------------------------------------- repeated runs of a week
\* one volunteer is evaluated; the other account is an admin's
InitRepeat ==
  /\ Init
  /\ role["v2"] = "admin"

\* a third scheduled run may start
CronStartThird == CronStartUpTo(MaxReports + 1)

\* scheduled runs with changes of roster between them, and the reads
NextRepeat ==
  \/ Tick
  \/ CronStartThird
  \/ CronStep
  \/ CronCommit
  \/ CronFail
  \/ OnDemandRead
  \/ \E uid \in Volunteers, roster \in RosterInputs : UpdateDetails(uid, roster)
  \/ \E uid \in Volunteers, roster \in AssignedRosters : AssignSubjects(uid, roster)

SpecRepeat == InitRepeat /\ [][NextRepeat]_vars

\* a stored report of the week the run computes lists the volunteer: its counter
\* has been incremented for that week
CountedForWeek(v) ==
  \E i \in 1..Len(reports) :
     reports[i].weekStart = tx.weekStart /\ Lists(reports[i], v)

\* C24: a scheduled run that commits does not increment the counter of a volunteer
\* for a weekStart for which an earlier committed run incremented it, whatever
\* deletions of lectures and changes of roster lie between the runs.
C24_OneIncrementPerWeek ==
  [][Commits =>
       \A v \in Volunteers :
         CountedForWeek(v) => lowLectureWeekCount'[v] # lowLectureWeekCount[v] + 1]_vars

\* ------------------------------------------------------ counter and week
\* C25: the lowLectureWeekCount of every volunteer is a non-negative integer; it is
\* 0 exactly when lastLowLectureWeek is null; and a lastLowLectureWeek that is not
\* null is the weekStart of a report a scheduled run has committed.
C25_CounterAndWeek ==
  \A v \in Volunteers :
     /\ lowLectureWeekCount[v] \in Nat
     /\ lowLectureWeekCount[v] = 0 <=> lastLowLectureWeek[v] = NULL
     /\ lastLowLectureWeek[v] # NULL =>
          \E i \in 1..Len(reports) :
             reports[i].weekStart = valueOf(lastLowLectureWeek[v])

\* one volunteer was counted in two weeks and the other, counted in the first, has
\* been reset by the second run
C25_Witness ==
  /\ cronOutcome.result = "committed"
  /\ Len(reports) = 2
  /\ reports[1].weekStart < reports[2].weekStart
  /\ lowLectureWeekCount["v2"] = 2
  /\ lastLowLectureWeek["v2"] = Date(reports[2].weekStart)
  /\ Lists(reports[1], "v1")
  /\ lowLectureWeekCount["v1"] = 0
  /\ lastLowLectureWeek["v1"] = NULL

\* ---------------------------------------------------- atomic submissions
\* C28: a lecture submission that is accepted appends one lecture, adds 1 to
\* lectureCount and 2 to volunteerHours, deletes the low_lecture_count_per_subject
\* notifications of its tuple and creates one lecture_added notification, all in one
\* step and nothing else; a request that is refused, for a student that is not in
\* the roster, a missing membership record or a write that fails, changes nothing
\* stored.
C28_SubmissionAllOrNothing ==
  [][/\ response'.kind = "added" =>
          LET u == response'.userId
              l == response'.lecture
          IN  /\ lectures' = [lectures EXCEPT ![u] = Append(@, l)]
              /\ lectureCount' = [lectureCount EXCEPT ![u] = @ + 1]
              /\ volunteerHours' = [volunteerHours EXCEPT ![u] = @ + 2]
              /\ notifications' =
                   DeleteAll(notifications,
                             Matching(notifications, u, LowType, l.subject,
                                      l.studentEmail))
                   (+) SetToBag({Note(u, "lecture_added", l.subject, l.studentEmail,
                                      0, 0)})
              /\ UNCHANGED <<profile, counters, reports>>
     /\ response'.kind = "refused" => UNCHANGED store]_vars

\* a submission was refused because its write failed, against the scheduled run
\* that had written the account, and the notification of its tuple is still stored
C28_Witness ==
  /\ response.kind = "refused"
  /\ response.status = 500
  /\ cronPc = "running"
  /\ "v1" \in tx.written
  /\ LowCount(notifications, "v1", "Math", "s@x.com") = 1

\* ------------------------------------------------------ denormalized total
\* submissions and deletions through both generations of the lecture routes
NextLectures ==
  \/ Tick
  \/ \E uid \in Volunteers, subject \in Subjects, studentEmail \in InputEmails :
       SubmitLecture(uid, subject, studentEmail)
  \/ \E uid \in Volunteers, subject \in Subjects : SubmitLectureLegacy(uid, subject)
  \/ \E uid \in Volunteers, k \in 1..MaxLectures : DeleteLecture(uid, k)
  \/ \E uid \in Volunteers, k \in 1..MaxLectures : DeleteLectureLegacy(uid, k)

SpecLectures == Init /\ [][NextLectures]_vars

joinResponse(uid, status) == [kind |-> "join", userId |-> uid, status |-> status]

\* router.post('/join-requests/:id/approve'): one transaction.  configured: the
\* mail settings are in the environment; sent: sendEmail delivers.  The e-mail
\* addresses of the requests are the valid ones their submission accepted.
Approve(uid, configured, sent) ==
  LET status == IF ~configured THEN 500
                ELSE IF jrStatus[uid] = "none" THEN 404
                ELSE IF jrStatus[uid] # "Pending" THEN 400
                ELSE IF uid \in hasAccount THEN 400
                ELSE IF ~sent THEN 500
                ELSE 200
  IN  /\ response' = joinResponse(uid, status)
      /\ IF status # 200
         THEN UNCHANGED <<store, hasAccount>>
         ELSE /\ jrStatus' = [jrStatus EXCEPT ![uid] = "Approved"]
              /\ volunteerHours' = [volunteerHours EXCEPT ![uid] = 0]
              /\ hasAccount' = hasAccount \cup {uid}
              /\ role' = [role EXCEPT ![uid] = "user"]
              /\ students' = [students EXCEPT ![uid] = <<>>]
              /\ lectures' = [lectures EXCEPT ![uid] = <<>>]
              /\ lectureCount' = [lectureCount EXCEPT ![uid] = 0]
              /\ lowLectureWeekCount' = [lowLectureWeekCount EXCEPT ![uid] = 0]
              /\ lastLowLectureWeek' = [lastLowLectureWeek EXCEPT ![uid] = NULL]
              /\ UNCHANGED <<jrSubjects, notifications, reports>>
      /\ cronOutcome' = NoOutcome
      /\ UNCHANGED <<now, cronState, rejecting>>

\* router.post('/join-requests/:id/reject') up to its save: findById and the test
\* of the status, outside any transaction
RejectRead(uid) ==
  LET status == IF jrStatus[uid] = "none" THEN 404
                ELSE IF jrStatus[uid] # "Pending" THEN 400
                ELSE 200
  IN  /\ uid \notin rejecting
      /\ IF status # 200
         THEN /\ response' = joinResponse(uid, status)
              /\ UNCHANGED rejecting
         ELSE /\ rejecting' = rejecting \cup {uid}
              /\ response' = NoResponse
      /\ cronOutcome' = NoOutcome
      /\ UNCHANGED <<now, store, cronState, hasAccount>>

\* the rest of the handler: joinRequest.save() writes the status it assigned to the
\* document it read
RejectSave(uid) ==
  /\ uid \in rejecting
  /\ jrStatus' = [jrStatus EXCEPT ![uid] = "Rejected"]
  /\ rejecting' = rejecting \ {uid}
  /\ response' = joinResponse(uid, 200)
  /\ cronOutcome' = NoOutcome
  /\ UNCHANGED <<now, role, jrSubjects, students, counters, lectureState,
                 notifications, reports, cronState, hasAccount>>

\* pending requests, of e-mails with and without an account
InitJoin ==
  /\ now = setHoursEnd(0)
  /\ role = [v \in Volunteers |-> "user"]
  /\ jrStatus = [v \in Volunteers |-> "Pending"]
  /\ jrSubjects = [v \in Volunteers |-> <<"Math">>]
  /\ students = [v \in Volunteers |-> <<>>]
  /\ lectures = [v \in Volunteers |-> <<>>]
  /\ lectureCount = [v \in Volunteers |-> 0]
  /\ volunteerHours = [v \in Volunteers |-> 0]
  /\ lowLectureWeekCount = [v \in Volunteers |-> 0]
  /\ lastLowLectureWeek = [v \in Volunteers |-> NULL]
  /\ notifications = EmptyBag
  /\ reports = <<>>
  /\ cronPc = "idle"
  /\ cronIdx = 0
  /\ cronOutcome = NoOutcome
  /\ snap = NoSnap
  /\ tx = NoTx
  /\ run2 = NoRun
  /\ response = NoResponse
  /\ hasAccount \in SUBSET Volunteers
  /\ rejecting = {}

NextJoin ==
  \/ Tick
  \/ \E uid \in Volunteers, configured \in BOOLEAN, sent \in BOOLEAN :
       Approve(uid, configured, sent)
  \/ \E uid \in Volunteers : RejectRead(uid)
  \/ \E uid \in Volunteers : RejectSave(uid)

SpecJoin == InitJoin /\ [][NextJoin]_vars

\* C30: the status of a join request changes only from Pending, and only to
\* Approved or to Rejected; an approval or a rejection that is refused, for a
\* request that is not Pending, an e-mail that has an account or a credentials
\* message that cannot be sent, leaves the stored records and the accounts as they
\* were.
C30_StatusLeavesPendingOnce ==
  [][/\ \A u \in Volunteers :
          jrStatus'[u] # jrStatus[u] =>
            /\ jrStatus[u] = "Pending"
            /\ jrStatus'[u] \in {"Approved", "Rejected"}
     /\ (response'.kind = "join" /\ response'.status # 200) =>
          UNCHANGED <<store, hasAccount>>]_vars

\* ------------------------------------------------------ overlapping runs
\* scheduled runs that may overlap, over the passing weeks
NextOverlap ==
  \/ Tick
  \/ CronStart
  \/ CronStep
  \/ CronCommit
  \/ CronFail
  \/ Cron2Start
  \/ Cron2Step
  \/ Cron2Commit
  \/ Cron2Fail

SpecOverlap == Init /\ [][NextOverlap]_vars

\* the weeks for which a committed scheduled run has listed the volunteer
WeeksListed(v) ==
  {reports[i].weekStart : i \in {j \in 1..Len(reports) : Lists(reports[j], v)}}

\* C11: scheduled runs that overlap cannot both count the same week for a
\* volunteer: whatever overlaps, a volunteer's lowLectureWeekCount is at most the
\* number of different weeks for which committed runs listed the volunteer, so it
\* rises by at most 1 per weekStart.
C11_OverlapCountsOnce ==
  \A v \in Volunteers : lowLectureWeekCount[v] <= Cardinality(WeeksListed(v))

\* one run has committed and counted the week for the volunteer, while an
\* overlapping run of the same week, which read the counter before that commit, is
\* about to process the volunteer
C11_Witness ==
  /\ Len(reports) = 1
  /\ lowLectureWeekCount["v1"] = 1
  /\ run2.pc = "running"
  /\ run2.idx = 1
  /\ run2.tx.users[1] = "v1"
  /\ run2.tx.last["v1"] = NULL
  /\ run2.tx.weekStart = reports[1].weekStart

\* --------------------------------------------------- the window at any instant
\* The clock read at every instant of the calendar, by the on-demand read and, at
\* the instants the schedule fires, by the scheduled run.
InitWindow ==
  /\ now = 0
  /\ InitStore

\* the next instant
Advance ==
  /\ cronPc = "idle"
  /\ run2.pc = "idle"
  /\ now < LastInstant
  /\ now' = now + 1
  /\ cronOutcome' = NoOutcome
  /\ response' = NoResponse
  /\ UNCHANGED <<store, cronState, joinState>>

NextWindow ==
  \/ Advance
  \/ CronStart
  \/ CronStep
  \/ CronCommit
  \/ CronFail
  \/ OnDemandRead

SpecWindow == InitWindow /\ [][NextWindow]_vars

\* the first and the last instant of a window [ws, we] computed at instant t are
\* those of a Saturday-to-Friday week that is over at t
IsWeekBefore(ws, we, t) ==
  /\ we - ws + 1 = 7 * TicksPerDay
  /\ getDay(ws) = 6 /\ ws % TicksPerDay = 0
  /\ getDay(we) = 5 /\ we % TicksPerDay = TicksPerDay - 1
  /\ DayOf(we) = DayOf(ws) + 6
  /\ we < t
  /\ DayOf(we) < DayOf(t)

\* C6: at every instant now, the window the evaluator and the on-demand read
\* compute is exactly 7 days long, starts on a Saturday at 00:00:00.000, ends on the
\* following Friday at 23:59:59.999 and lies entirely before now, never containing
\* the current day; when now is a Saturday the days-since-Saturday value is 7.
\* Stated of the window a live answer reports, of the window a scheduled run
\* holds, and of the computation at every instant.
C6_WindowShape ==
  /\ IsWeekBefore(weekStart(now), weekEnd(now), now)
  /\ getDay(now) = 6 => daysToPreviousSaturday(now) = 7
  /\ response.kind = "live" => IsWeekBefore(response.weekStart, response.weekEnd, now)
  /\ cronPc = "running" => IsWeekBefore(tx.weekStart, tx.weekEnd, now)

\* a live answer given on a Saturday reports a week that ended before that day
C6_Witness ==
  /\ getDay(now) = 6
  /\ response.kind = "live"
  /\ response.weekEnd < setHoursStart(now)
  /\ response.weekEnd - response.weekStart + 1 = 7 * TicksPerDay

\* an instant is the end of a week: the last instant of a Friday
IsFridayEnd(f) == getDay(f) = 5 /\ f = setHoursEnd(f)

\* C7: at every instant now, Saturdays included, the computed window is the most
\* recently completed Saturday-to-Friday week: no Friday 23:59:59.999 lies strictly
\* between weekEnd and now.
C7_MostRecentlyCompletedWeek ==
  \A f \in (weekEnd(now) + 1) .. (now - 1) : ~IsFridayEnd(f)


\* the latest stored report was committed less than 6 days before now: no weekly
\* trigger has come since
BeforeNextTrigger ==
  /\ reports # <<>>
  /\ reports[Len(reports)].createdAt <= now
  /\ now - reports[Len(reports)].createdAt < 6 * TicksPerDay

\* C23: after a scheduled run has committed its report, every on-demand read made
\* before the next weekly trigger computes the weekStart of that run and is
\* answered from the stored report.
C23_ReadsHitTheReport ==
  [][(Reads /\ BeforeNextTrigger) =>
       /\ weekStart(now) = reports[Len(reports)].weekStart
       /\ response'.kind = "cached"]_vars


\* --------------------------------------------------- the counter in a report
\* the overlapping run may be the third to commit
Cron2StartThird == Cron2StartUpTo(MaxReports + 1)

\* scheduled runs that may overlap, with changes of roster between and during them
NextRace ==
  \/ Tick
  \/ CronStartThird
  \/ CronStep
  \/ CronCommit
  \/ CronFail
  \/ Cron2StartThird
  \/ Cron2Step
  \/ Cron2Commit
  \/ Cron2Fail
  \/ \E uid \in Volunteers, roster \in RosterInputs : UpdateDetails(uid, roster)

SpecRace == InitRepeat /\ [][NextRace]_vars

\* C26: in the report a scheduled run commits, every listed member carries a
\* lowLectureWeekCount of at least 1 that is the volunteer's stored counter when the
\* run has committed.
C26_ReportedCounterIsStored ==
  [][Commits =>
       \A n \in 1..Len(reports'[Len(reports')].members) :
          LET m == reports'[Len(reports')].members[n]
          IN  /\ m.lowLectureWeekCount >= 1
              /\ m.lowLectureWeekCount = lowLectureWeekCount'[m.id]]_vars


\* ------------------------------------------------------ consecutive windows
\* an instant is the first of a Saturday
IsSaturdayStart(t) == getDay(t) = 6 /\ t = setHoursStart(t)

\* the report was committed at the trigger that followed the other's by 7 days
FollowsByAWeek(later, earlier) ==
  /\ IsSaturdayStart(earlier.createdAt)
  /\ later.createdAt = earlier.createdAt + 7 * TicksPerDay

\* C27: when scheduled runs commit at 00:00 of consecutive Saturdays, the later
\* run's weekStart is exactly 7 days after the earlier run's and follows its weekEnd
\* immediately, so that every instant from the first window's start to the second
\* window's end lies in exactly one of the two windows.
C27_ConsecutiveWindows ==
  \A i, j \in 1..Len(reports) :
     FollowsByAWeek(reports[j], reports[i]) =>
       /\ reports[j].weekStart = reports[i].weekStart + 7 * TicksPerDay
       /\ reports[j].weekStart = reports[i].weekEnd + 1
       /\ \A x \in reports[i].weekStart .. reports[j].weekEnd :
            (x >= reports[i].weekStart /\ x <= reports[i].weekEnd)
              # (x >= reports[j].weekStart /\ x <= reports[j].weekEnd)

\* two runs have committed, at the first instants of the two Saturdays of the model
C27_Witness ==
  /\ Len(reports) = 2
  /\ FollowsByAWeek(reports[2], reports[1])
  /\ reports[2].weekEnd - reports[1].weekStart + 1 = 14 * TicksPerDay

=============================================================================
